---- MODULE Spec2Model ----
(***************************************************************************)
(* cloudtab frontend: the task poller (hooks/useTaskPoller), the axios     *)
(* request pipeline with its refresh protocol and error bus                *)
(* (api/client.ts), and the error-to-toast bridge (hooks/useApiErrorToast, *)
(* components/shared/Toast).                                               *)
(*                                                                         *)
(* One step of the model is one run-to-completion piece of JavaScript on   *)
(* the event loop: an event handler, a timer callback, or the continuation *)
(* of an awaited call up to its next await.  React applies state updates   *)
(* and runs effect cleanups / effects in a later piece of work (Commit).   *)
(***************************************************************************)
EXTENDS Integers, Sequences, FiniteSets, TLC

\* ------------------------------------------------------------------ bounds
\* startPolling calls plus status lookups issued in one run
MaxWork == 5

\* --------------------------------------------------------------- optionals
None == <<>>
Some(x) == <<x>>

\* ------------------------------------------------- numbers (exact rationals)
\* Intervals are JavaScript numbers multiplied by 0.8 and by backoffFactor;
\* they are kept as exact fractions <<numerator, denominator>>.
RECURSIVE Gcd(_, _)
Gcd(a, b) == IF b = 0 THEN a ELSE Gcd(b, a % b)

Rat(n, d) == LET g == Gcd(n, d) IN <<n \div g, d \div g>>
RatMul(x, y) == Rat(x[1] * y[1], x[2] * y[2])
RatLeq(x, y) == x[1] * y[2] <= y[1] * x[2]
RatMax(x, y) == IF RatLeq(x, y) THEN y ELSE x
RatMin(x, y) == IF RatLeq(x, y) THEN x ELSE y
\* smallest whole number of milliseconds not below x
RatCeil(x) == (x[1] + x[2] - 1) \div x[2]

\* ----------------------------------------------------------- useTaskPoller
DEFAULTS ==
  [ initialInterval |-> Rat(1000, 1),
    maxInterval     |-> Rat(10000, 1),
    backoffFactor   |-> Rat(3, 2),
    timeout         |-> 300000,
    maxErrors       |-> 10 ]

\* const opts = { ...DEFAULTS, ...options }
MergeOptions(options) ==
  [k \in DOMAIN DEFAULTS |-> IF k \in DOMAIN options THEN options[k] ELSE DEFAULTS[k]]

\* The options a caller passes: none, a short timeout with a small error
\* budget and a low cap, a floor above the cap, and a shrinking "backoff".
OptionChoices ==
  { [timeout |-> 300000],
    [timeout |-> 3000, maxErrors |-> 2, maxInterval |-> Rat(1200, 1)],
    [initialInterval |-> Rat(1000, 1), maxInterval |-> Rat(500, 1), maxErrors |-> 1],
    [backoffFactor |-> Rat(1, 2), maxErrors |-> 3, timeout |-> 3000] }

TaskIds == {"A", "B"}
NULL == "null"
Statuses == {"pending", "running", "success", "failed"}

TimeoutError == <<"Task polling timed out">>
BudgetError(n) == <<"Task polling failed after ", n, " attempts">>

VARIABLES
  opts,           \* the merged options of the hook
  taskId,         \* useState: id being tracked, or NULL
  task,           \* useState: None or Some([id, status])
  isPolling,      \* useState
  error,          \* useState: None or Some(message)
  intervalRef,    \* useRef: current interval in ms
  errorCountRef,  \* useRef: consecutive failed lookups
  startTimeRef,   \* useRef: Date.now() at startPolling
  deps,           \* <<taskId, isPolling>> the effect last ran with
  gen,            \* number of effect instances that started a poll loop
  cancelled,      \* the `cancelled` flag of effect instance `gen`
  timer,          \* None or Some([setAt, delay]): the armed setTimeout(poll, delay)
  inflight,       \* status lookups awaiting their response: [gen, id]
  now,            \* Date.now()
  starts,         \* startPolling calls so far
  lookups,        \* status lookups issued so far
  completions,    \* onComplete invocations since the last startPolling
  resetDone,      \* reset() was called since the last startPolling
  stopped,        \* why polling stopped since the last startPolling
  lastEv          \* what the last step did

pollerVars ==
  <<opts, taskId, task, isPolling, error, intervalRef, errorCountRef, startTimeRef,
    deps, gen, cancelled, timer, inflight, now, starts, lookups,
    completions, resetDone, stopped, lastEv>>

\* What a step did: which handler ran, whether it ran in a live (not
\* cancelled) effect instance, the status a lookup returned, whether poll()
\* issued a lookup, whether it issued it while another lookup of the same
\* effect instance was unresolved, whether onComplete was invoked, and the
\* consecutive error count the step found.
Ev(act, live, status) ==
  [act |-> act, live |-> live, status |-> status, issued |-> FALSE,
   overlap |-> FALSE, completed |-> FALSE, prevCount |-> 0]

\* The timeout never checked.
TimedOutNever(t) == FALSE

\* Off by one past the timeout.
TimedOutLate(t) == t - startTimeRef > opts.timeout + 1

\* if (Date.now() - startTimeRef.current > opts.timeout)
TimedOut(t) == t - startTimeRef > opts.timeout

\* "success" not taken for a terminal status.
IsTerminalFailedOnly(s) == s = "failed"

\* "failed" not taken for a terminal status.
IsTerminalSuccessOnly(s) == s = "success"

\* "running" taken for a terminal status.
IsTerminalLoose(s) == s \in {"success", "failed", "running"}

\* status.status === "success" || status.status === "failed"
IsTerminal(s) == s \in {"success", "failed"}

\* The floor forgotten.
TightenUnfloored(i) == RatMul(i, Rat(4, 5))

\* Math.max(opts.initialInterval, intervalRef.current * 0.8)
Tighten(i) == RatMax(opts.initialInterval, RatMul(i, Rat(4, 5)))

\* The factor applied to the initial interval, not the current one.
BackoffFromInitial(i) ==
  RatMin(RatMul(opts.initialInterval, opts.backoffFactor), opts.maxInterval)

\* Every successful lookup tightens, whatever the status.
TightenAlways(i, st) == RatMax(opts.initialInterval, RatMul(i, Rat(4, 5)))

\* if (status.status === "running") intervalRef.current = Math.max(...)
IntervalAfterSuccess(i, st) == IF st = "running" THEN Tighten(i) ELSE i

\* The cap forgotten.
BackoffUncapped(i) == RatMul(i, opts.backoffFactor)

\* Math.min(intervalRef.current * opts.backoffFactor, opts.maxInterval)
Backoff(i) == RatMin(RatMul(i, opts.backoffFactor), opts.maxInterval)

\* The reset forgotten.
CountKept(c) == c

\* errorCountRef.current = 0; // Reset error count on success
CountAfterSuccess(c) == 0

\* One failure too many allowed.
BudgetExhaustedLate(c) == c > opts.maxErrors

\* errorCountRef.current >= opts.maxErrors
BudgetExhausted(c) == c >= opts.maxErrors

\* A lookup belongs to a cancelled effect instance: its cleanup has run.
IsCancelled(r) == r.gen # gen \/ cancelled

PollerInit ==
  /\ opts \in {MergeOptions(o) : o \in OptionChoices}
  /\ taskId = NULL
  /\ task = None
  /\ isPolling = FALSE
  /\ error = None
  /\ intervalRef = opts.initialInterval
  /\ errorCountRef = 0
  /\ startTimeRef = 0
  /\ deps = <<NULL, FALSE>>
  /\ gen = 0
  /\ cancelled = TRUE
  /\ timer = None
  /\ inflight = {}
  /\ now = 0
  /\ starts = 0
  /\ lookups = 0
  /\ completions = 0
  /\ resetDone = FALSE
  /\ stopped = "none"
  /\ lastEv = Ev("init", FALSE, NULL)

\* startPolling without setError(null).
StartPollingKeepsError(id) ==
  /\ starts + lookups < MaxWork
  /\ starts' = starts + 1
  /\ taskId' = id
  /\ task' = None
  /\ isPolling' = TRUE
  /\ intervalRef' = opts.initialInterval
  /\ errorCountRef' = 0
  /\ startTimeRef' = now
  /\ completions' = 0
  /\ resetDone' = FALSE
  /\ stopped' = "none"
  /\ lastEv' = Ev("start", FALSE, NULL)
  /\ UNCHANGED <<opts, error, deps, gen, cancelled, timer, inflight, now, lookups>>

\* startPolling(id)
StartPolling(id) ==
  /\ starts + lookups < MaxWork
  /\ starts' = starts + 1
  /\ taskId' = id
  /\ task' = None
  /\ error' = None
  /\ isPolling' = TRUE
  /\ intervalRef' = opts.initialInterval
  /\ errorCountRef' = 0
  /\ startTimeRef' = now
  /\ completions' = 0
  /\ resetDone' = FALSE
  /\ stopped' = "none"
  /\ lastEv' = Ev("start", FALSE, NULL)
  /\ UNCHANGED <<opts, deps, gen, cancelled, timer, inflight, now, lookups>>


\* reset()
Reset ==
  /\ taskId' = NULL
  /\ task' = None
  /\ error' = None
  /\ isPolling' = FALSE
  /\ resetDone' = TRUE
  /\ lastEv' = Ev("reset", FALSE, NULL)
  /\ UNCHANGED <<opts, intervalRef, errorCountRef, startTimeRef, deps, gen, cancelled,
                 timer, inflight, now, starts, lookups, completions, stopped>>

\* poll(), up to its first await, run at time t by effect instance g for
\* task id:
\* the timeout check, then the status lookup is issued.
PollBegin(act, g, id, t) ==
  IF TimedOut(t)
    THEN /\ error' = Some(TimeoutError)
         /\ isPolling' = FALSE
         /\ stopped' = "timeout"
         /\ lastEv' = Ev(act, TRUE, NULL)
         /\ UNCHANGED <<inflight, lookups>>
    ELSE /\ inflight' = inflight \cup {[gen |-> g, id |-> id]}
         /\ lookups' = lookups + 1
         /\ lastEv' = [Ev(act, TRUE, NULL) EXCEPT
                         !.issued = TRUE,
                         !.overlap = \E r \in inflight : r.gen = g]
         /\ UNCHANGED <<error, isPolling, stopped>>

\* React re-renders and runs the effect: the cleanup of the previous
\* instance, then the effect body with the new taskId / isPolling.
Commit ==
  /\ deps # <<taskId, isPolling>>
  /\ deps' = <<taskId, isPolling>>
  /\ timer' = None
  /\ IF taskId # NULL /\ isPolling
       THEN /\ starts + lookups < MaxWork
            /\ gen' = gen + 1
            /\ cancelled' = FALSE
            /\ PollBegin("commit", gen + 1, taskId, now)
       ELSE /\ cancelled' = TRUE
            /\ lastEv' = Ev("commit", FALSE, NULL)
            /\ UNCHANGED <<gen, error, isPolling, stopped, inflight, lookups>>
  /\ UNCHANGED <<opts, taskId, task, intervalRef, errorCountRef, startTimeRef, now,
                 starts, completions, resetDone>>

\* When the armed timer is due: setAt + delay, in whole milliseconds.
TimerDue == timer[1].setAt + RatCeil(timer[1].delay)

\* setInterval in place of setTimeout: the timer stays armed.
AfterFireRepeating(tm, t) == Some([setAt |-> t, delay |-> tm[1].delay])

\* setTimeout is one-shot: once it fired no timer is armed
AfterFire(tm, t) == None

\* The armed timer fires, at its due time or, when that has passed, now:
\* setTimeout(poll, intervalRef.current)
TimerFire ==
  /\ timer # None
  /\ starts + lookups < MaxWork
  /\ now' = IF now < TimerDue THEN TimerDue ELSE now
  /\ timer' = AfterFire(timer, now')
  /\ PollBegin("timer", gen, deps[1], now')
  /\ UNCHANGED <<opts, taskId, task, intervalRef, errorCountRef, startTimeRef, deps,
                 gen, cancelled, starts, completions, resetDone>>

\* await getTaskStatus(taskId) returns st
LookupSuccess(r, st) ==
  /\ r \in inflight
  /\ inflight' = inflight \ {r}
  /\ IF IsCancelled(r)
       THEN /\ lastEv' = Ev("success", FALSE, NULL)
            /\ UNCHANGED <<task, errorCountRef, isPolling, completions,
                           intervalRef, timer>>
       ELSE /\ lastEv' = [Ev("success", TRUE, st) EXCEPT
                            !.completed = IsTerminal(st),
                            !.prevCount = errorCountRef]
            /\ task' = Some([id |-> r.id, status |-> st])
            /\ errorCountRef' = CountAfterSuccess(errorCountRef)
            /\ IF IsTerminal(st)
                 THEN /\ isPolling' = FALSE
                      /\ completions' = completions + 1
                      /\ UNCHANGED <<intervalRef, timer>>
                 ELSE /\ intervalRef' = IntervalAfterSuccess(intervalRef, st)
                      /\ timer' = Some([setAt |-> now, delay |-> intervalRef'])
                      /\ UNCHANGED <<isPolling, completions>>
  /\ UNCHANGED <<opts, taskId, error, startTimeRef, deps, gen, cancelled, now, starts,
                 lookups, resetDone, stopped>>

\* await getTaskStatus(taskId) throws
LookupFailure(r) ==
  /\ r \in inflight
  /\ inflight' = inflight \ {r}
  /\ IF IsCancelled(r)
       THEN /\ lastEv' = Ev("failure", FALSE, NULL)
            /\ UNCHANGED <<errorCountRef, error, isPolling, stopped, intervalRef, timer>>
       ELSE /\ lastEv' = [Ev("failure", TRUE, NULL) EXCEPT !.prevCount = errorCountRef]
            /\ errorCountRef' = errorCountRef + 1
            /\ IF BudgetExhausted(errorCountRef + 1)
                 THEN /\ error' = Some(BudgetError(opts.maxErrors))
                      /\ isPolling' = FALSE
                      /\ stopped' = "budget"
                      /\ UNCHANGED <<intervalRef, timer>>
                 ELSE /\ intervalRef' = Backoff(intervalRef)
                      /\ timer' = Some([setAt |-> now, delay |-> intervalRef'])
                      /\ UNCHANGED <<error, isPolling, stopped>>
  /\ UNCHANGED <<opts, taskId, task, startTimeRef, deps, gen, cancelled, now, starts,
                 lookups, completions, resetDone>>

\* Time passes while the hook is polling, a timer is armed or a lookup is
\* awaited: up to the timeout, or just past it.
TickSteps ==
  {startTimeRef + opts.timeout - now, startTimeRef + opts.timeout + 1 - now}

Tick(d) ==
  /\ d > 0
  /\ isPolling \/ timer # None \/ inflight # {}
  /\ now' = now + d
  /\ lastEv' = Ev("tick", FALSE, NULL)
  /\ UNCHANGED <<opts, taskId, task, isPolling, error, intervalRef, errorCountRef,
                 startTimeRef, deps, gen, cancelled, timer, inflight, starts, lookups,
                 completions, resetDone, stopped>>

\* ------------------------------------------- api/client.ts: the pipeline
\* calls issued through the pipeline in one run
NumCalls == 2

CallIds == 1 .. NumCalls

\* An axios error: the response (None when no response was received), the
\* error code and the error message.  A response has a status and data;
\* data is None or Some([detail, errors]).
HttpError(status, data) ==
  [response |-> Some([status |-> status, data |-> data]),
   code |-> "ERR_BAD_REQUEST", message |-> "Request failed"]
NetworkError(code, message) == [response |-> None, code |-> code, message |-> message]

Detail(text) == Some([detail |-> Some(text), errors |-> None])

\* The failures the remote API answers a call with.
ErrorResponses ==
  { HttpError(401, Detail("Not authenticated")),
    HttpError(409, Detail("Conflict")),
    HttpError(503, Detail("Service Unavailable")),
    NetworkError("ERR_NETWORK", "Network Error") }

OkResponse == [response |-> Some([status |-> 200, data |-> None]), code |-> "", message |-> ""]

\* error.response?.status (None for undefined)
StatusOf(err) == IF err.response = None THEN None ELSE Some(err.response[1].status)

\* e.field ? `${e.field}: ${e.message}` : e.message
FieldMessage(e) == IF e.field # None THEN <<e.field[1], ": ", e.message>> ELSE <<e.message>>

\* data.errors.map(...).join("; ")
RECURSIVE JoinErrors(_)
JoinErrors(es) ==
  IF es = <<>> THEN <<>>
  ELSE IF Len(es) = 1 THEN FieldMessage(es[1])
  ELSE FieldMessage(es[1]) \o <<"; ">> \o JoinErrors(Tail(es))

\* The errors list preferred to the detail.
extractErrorMessageErrorsFirst(err) ==
  LET data == IF err.response = None THEN None ELSE err.response[1].data IN
  IF data = None
    THEN IF err.code = "ERR_NETWORK" THEN <<"Network error - is the server running?">>
         ELSE IF err.code = "ECONNABORTED" THEN <<"Request timed out">>
         ELSE IF err.message # "" THEN <<err.message>>
         ELSE <<"An unexpected error occurred">>
    ELSE IF data[1].errors # None THEN JoinErrors(data[1].errors[1])
         ELSE IF data[1].detail # None THEN <<data[1].detail[1]>>
         ELSE <<"An unexpected error occurred">>

\* extractErrorMessage(error), for an axios error; a message is the sequence
\* of the pieces it is put together from (the source's em dash is written -).
extractErrorMessage(err) ==
  LET data == IF err.response = None THEN None ELSE err.response[1].data IN
  IF data = None
    THEN IF err.code = "ERR_NETWORK" THEN <<"Network error - is the server running?">>
         ELSE IF err.code = "ECONNABORTED" THEN <<"Request timed out">>
         ELSE IF err.message # "" THEN <<err.message>>
         ELSE <<"An unexpected error occurred">>
    ELSE IF data[1].detail # None THEN <<data[1].detail[1]>>
         ELSE IF data[1].errors # None THEN JoinErrors(data[1].errors[1])
         ELSE <<"An unexpected error occurred">>

\* The branch for 503 tried before the one for 500 and more.
BridgeToastFixedMessage(message, status) ==
  IF status = Some(503)
    THEN [type |-> "error",
          message |-> <<"Service temporarily unavailable. Please try again.">>,
          duration |-> 8000]
  ELSE IF status # None /\ status[1] >= 500
    THEN [type |-> "error", message |-> message, duration |-> 8000]
  ELSE IF status = Some(409)
    THEN [type |-> "warning", message |-> message, duration |-> 6000]
  ELSE [type |-> "error", message |-> message, duration |-> 5000]

\* useApiErrorToast: the toast the bridge adds for a published (message, status)
BridgeToast(message, status) ==
  IF status # None /\ status[1] >= 500
    THEN [type |-> "error", message |-> message, duration |-> 8000]
  ELSE IF status = Some(409)
    THEN [type |-> "warning", message |-> message, duration |-> 6000]
  ELSE IF status = Some(503)
    THEN [type |-> "error",
          message |-> <<"Service temporarily unavailable. Please try again.">>,
          duration |-> 8000]
  ELSE [type |-> "error", message |-> message, duration |-> 5000]

VARIABLES
  store,      \* localStorage: [access, refresh], each None or Some(token)
  calls,      \* the calls: per call its config, position and outcome
  href,       \* window.location.href
  tokSeq,     \* credential pairs the refresh endpoint has issued
  listeners,  \* errorListeners, in insertion order
  toasts,     \* ToastProvider: the active toasts
  toastSeq,   \* toasts added so far
  pipeEv      \* what the last step did

pipeVars == <<store, calls, href, tokSeq, listeners, toasts, toastSeq, pipeEv>>

\* The subscribers: the toast bridge and one more listener.
Listeners == {"bridge", "probe"}

\* The error a listener raises.
ListenerError == [response |-> None, code |-> "", message |-> "listener failed"]

\* The credential pair number n of the refresh endpoint (0: the login's).
AccessToken(n) == <<"access", n>>
RefreshToken(n) == <<"refresh", n>>

NewCall ==
  [pc |-> "idle",          \* idle, sent, refreshing, resolved, rejected
   retry |-> FALSE,        \* originalRequest._retry
   header |-> None,        \* config.headers.Authorization (the bearer token)
   sent |-> <<>>,          \* the bearer of each time the call went on the wire
   resp |-> <<>>,          \* the response to each time the call went on the wire
   refreshCalls |-> 0,     \* POST /auth/refresh issued for this call
   refreshWith |-> None,   \* the refresh token sent to /auth/refresh
   got |-> None,           \* the pair a successful refresh returned
   orig |-> None,          \* the 401 error that started the protocol
   redirected |-> FALSE,   \* this call set window.location.href = "/login"
   notified |-> 0,         \* notifyError calls made for this call
   outcome |-> None]       \* what the caller's promise settled with

\* What a step did: the branch that ran, for which call, what it published
\* (None or Some([message, status])) and which listeners were called.
PipeEv(act, c) == [act |-> act, call |-> c, pub |-> None, to |-> {}]

\* localStorage survives reloads: at load it holds both tokens, only the
\* access token, or none.
PipeInit ==
  /\ store \in { [access |-> Some(AccessToken(0)), refresh |-> Some(RefreshToken(0))],
                 [access |-> Some(AccessToken(0)), refresh |-> None],
                 [access |-> None, refresh |-> None] }
  /\ calls = [c \in CallIds |-> NewCall]
  /\ href = "/"
  /\ tokSeq = 0
  /\ listeners = <<>>
  /\ toasts = <<>>
  /\ toastSeq = 0
  /\ pipeEv = PipeEv("init", 0)

\* The interceptor leaves the header as the caller set it.
KeepHeader(header, st) == header

\* The request interceptor: the bearer header after it ran.
AttachBearer(header, st) == IF st.access # None THEN st.access ELSE header

\* Any failed response enters the protocol.
EntersOnAnyError(err, retry) == ~retry

\* The _retry flag not consulted.
EntersOnEvery401(err, retry) == StatusOf(err) = Some(401)

\* error.response?.status === 401 && !originalRequest._retry
EntersRefreshProtocol(err, retry) == StatusOf(err) = Some(401) /\ ~retry

\* The access token left in place.
NotCleared(st) == st

\* The store after the protocol found no refresh token.
ClearedNoRefresh(st) == [st EXCEPT !.access = None]

\* Only the access token removed.
ClearedAccessOnly(st) == [st EXCEPT !.access = None]

\* Only the refresh token removed.
ClearedRefreshOnly(st) == [st EXCEPT !.refresh = None]

\* The store after the refresh call failed.
ClearedRefreshFailed(st) == [access |-> None, refresh |-> None]

\* The new refresh token not stored.
StoredAccessOnly(n) == [access |-> Some(AccessToken(n)), refresh |-> Some(RefreshToken(0))]

\* The store after the refresh call returned pair n.
StoredPair(n) == [access |-> Some(AccessToken(n)), refresh |-> Some(RefreshToken(n))]

\* The listeners now in errorListeners.
Subscribed == {listeners[i] : i \in DOMAIN listeners}

\* onApiError(listener): errorListeners.add(listener)
Subscribe(l) ==
  /\ l \notin Subscribed
  /\ listeners' = Append(listeners, l)
  /\ pipeEv' = PipeEv("subscribe", 0)
  /\ UNCHANGED <<store, calls, href, tokSeq, toasts, toastSeq>>

\* the function onApiError returned: errorListeners.delete(listener)
Unsubscribe(l) ==
  /\ l \in Subscribed
  /\ listeners' = SelectSeq(listeners, LAMBDA x : x # l)
  /\ pipeEv' = PipeEv("unsubscribe", 0)
  /\ UNCHANGED <<store, calls, href, tokSeq, toasts, toastSeq>>

\* No error published.
PublishesNothing(err) == FALSE

\* Errors without a response not published.
PublishesResponsesOnly(err) == StatusOf(err) \notin {None, Some(401)}

\* Every error published.
PublishesAll(err) == TRUE

\* if (error.response?.status !== 401)
Publishes(err) == StatusOf(err) # Some(401)

\* Only the listener subscribed first called.
InvokedFirstOnly(ls, raises) == IF ls = <<>> THEN {} ELSE {ls[1]}

\* errorListeners.forEach((fn) => fn(message, status)): the listeners called,
\* in insertion order; a listener that raises ends the iteration.
Invoked(ls, raises) ==
  IF raises /\ \E i \in DOMAIN ls : ls[i] = "probe"
    THEN LET k == CHOOSE i \in DOMAIN ls : ls[i] = "probe" IN {ls[i] : i \in 1 .. k}
    ELSE {ls[i] : i \in DOMAIN ls}

\* notifyError(message, status) for call c: every listener called is handed
\* (message, status); the bridge, when called, adds a toast.
Notified(c, message, status, raises) ==
  LET to == Invoked(listeners, raises) IN
    IF "bridge" \in to
      THEN /\ toasts' = Append(toasts, [id |-> toastSeq + 1] @@ BridgeToast(message, status))
           /\ toastSeq' = toastSeq + 1
      ELSE UNCHANGED <<toasts, toastSeq>>

\* client.get / post / ...: the request interceptor runs, the call is sent
\* (calls are numbered in the order they are made)
Send(c) ==
  /\ calls[c].pc = "idle"
  /\ \A b \in CallIds : b < c => calls[b].pc # "idle"
  /\ LET h == AttachBearer(calls[c].header, store) IN
       calls' = [calls EXCEPT ![c].pc = "sent", ![c].header = h,
                              ![c].sent = Append(@, h)]
  /\ pipeEv' = PipeEv("send", c)
  /\ UNCHANGED <<store, href, tokSeq, listeners, toasts, toastSeq>>

\* response interceptor, (response) => response
ResponseOk(c) ==
  /\ calls[c].pc = "sent"
  /\ calls' = [calls EXCEPT ![c].pc = "resolved", ![c].resp = Append(@, OkResponse),
                            ![c].outcome = Some(OkResponse)]
  /\ pipeEv' = PipeEv("ok", c)
  /\ UNCHANGED <<store, href, tokSeq, listeners, toasts, toastSeq>>

\* One refresh at a time: no refresh call while another call awaits one.
RefreshesSingleFlight(st, cs) ==
  st.refresh # None /\ \A c \in DOMAIN cs : cs[c].pc # "refreshing"

\* const refreshToken = localStorage.getItem("refresh_token");
\* if (refreshToken): the refresh call is made
Refreshes(st, cs) == st.refresh # None

\* response interceptor, async (error) => ..., up to its await or its end;
\* `raises` tells whether the probe listener raises when it is called.
ResponseErrorWith(c, err, raises) ==
  /\ calls[c].pc = "sent"
  /\ raises => ("probe" \in Subscribed /\ Publishes(err) /\ ~EntersRefreshProtocol(err, calls[c].retry))
  /\ IF EntersRefreshProtocol(err, calls[c].retry)
       THEN IF Refreshes(store, calls)
              THEN /\ calls' = [calls EXCEPT ![c].retry = TRUE, ![c].pc = "refreshing",
                                             ![c].resp = Append(@, err),
                                             ![c].refreshCalls = @ + 1,
                                             ![c].refreshWith = store.refresh,
                                             ![c].orig = Some(err)]
                   /\ pipeEv' = PipeEv("refresh", c)
                   /\ UNCHANGED <<store, href, toasts, toastSeq>>
              ELSE /\ store' = ClearedNoRefresh(store)
                   /\ href' = "/login"
                   /\ calls' = [calls EXCEPT ![c].retry = TRUE, ![c].pc = "rejected",
                                             ![c].resp = Append(@, err),
                                             ![c].orig = Some(err),
                                             ![c].redirected = TRUE,
                                             ![c].outcome = Some(err)]
                   /\ pipeEv' = PipeEv("noRefresh", c)
                   /\ UNCHANGED <<toasts, toastSeq>>
       ELSE /\ IF Publishes(err)
                 THEN /\ Notified(c, extractErrorMessage(err), StatusOf(err), raises)
                      /\ calls' = [calls EXCEPT ![c].pc = "rejected",
                                                ![c].resp = Append(@, err),
                                                ![c].notified = @ + 1,
                                                ![c].outcome =
                                                  IF raises THEN Some(ListenerError)
                                                  ELSE Some(err)]
                      /\ pipeEv' = [PipeEv("reject", c) EXCEPT
                                      !.pub = Some([message |-> extractErrorMessage(err),
                                                    status |-> StatusOf(err)]),
                                      !.to = Invoked(listeners, raises)]
                 ELSE /\ calls' = [calls EXCEPT ![c].pc = "rejected",
                                                ![c].resp = Append(@, err),
                                                ![c].outcome = Some(err)]
                      /\ pipeEv' = PipeEv("reject", c)
                      /\ UNCHANGED <<toasts, toastSeq>>
            /\ UNCHANGED <<store, href>>
  /\ UNCHANGED <<tokSeq, listeners>>

\* The same with listeners that return normally.
ResponseError(c, err) == ResponseErrorWith(c, err, FALSE)

\* await axios.post("/auth/refresh") returns: the pair is stored, the new
\* access token put on the original request, and client(originalRequest)
\* sends it again through the request interceptor
RefreshOk(c) ==
  /\ calls[c].pc = "refreshing"
  /\ tokSeq' = tokSeq + 1
  /\ store' = StoredPair(tokSeq + 1)
  /\ LET h == AttachBearer(Some(AccessToken(tokSeq + 1)), store') IN
       calls' = [calls EXCEPT ![c].pc = "sent", ![c].header = h,
                              ![c].sent = Append(@, h),
                              ![c].got = Some(tokSeq + 1)]
  /\ pipeEv' = PipeEv("refreshOk", c)
  /\ UNCHANGED <<href, listeners, toasts, toastSeq>>

\* await axios.post("/auth/refresh") throws: the catch block, then the end
\* of the interceptor with the original error
RefreshFail(c) ==
  /\ calls[c].pc = "refreshing"
  /\ store' = ClearedRefreshFailed(store)
  /\ href' = "/login"
  /\ calls' = [calls EXCEPT ![c].pc = "rejected", ![c].redirected = TRUE,
                            ![c].outcome = calls[c].orig]
  /\ pipeEv' = PipeEv("refreshFail", c)
  /\ UNCHANGED <<tokSeq, listeners, toasts, toastSeq>>

\* LoginPage.handleSubmit, register mode, after registerUser returned: both
\* tokens of the new pair are stored by two setItem calls in a row, then
\* navigate("/dashboard"). The page is the one a signed-out user is sent to.
Register ==
  /\ href = "/login" \/ store.access = None
  /\ tokSeq' = tokSeq + 1
  /\ store' = StoredPair(tokSeq + 1)
  /\ href' = "/dashboard"
  /\ pipeEv' = PipeEv("register", 0)
  /\ UNCHANGED <<calls, listeners, toasts, toastSeq>>

\* ------------------------------------ components/shared/Toast: the toasts
\* toasts added in one run
MaxToasts == 2
\* clicks on a dismiss button in one run
MaxDismiss == 2

VARIABLES
  items,       \* per toast id: its ToastItem component and timers
  dismissals,  \* clicks on a dismiss button so far
  toastEv      \* what the last step of the toast provider did

toastVars == <<items, dismissals, toastEv>>

\* The pipeline's variables other than the active toasts.
busVars == <<store, calls, href, tokSeq, listeners, pipeEv>>

\* addToast called with no duration: the parameter is undefined.
NoDuration == 0

\* What a component calls addToast with directly: with a duration and
\* with none.
ToastInputs ==
  { [type |-> "info", message |-> <<"Queued">>, duration |-> 3000],
    [type |-> "success", message |-> <<"Saved">>, duration |-> NoDuration] }

\* The (message, status) pairs the bus hands the bridge: a status of 500 or
\* more, 409, another status, and no response at all.
PublishedEvents ==
  { [message |-> <<"Conflict">>, status |-> Some(409)],
    [message |-> <<"Service Unavailable">>, status |-> Some(503)],
    [message |-> <<"Not Found">>, status |-> Some(404)],
    [message |-> <<"Network error - is the server running?">>, status |-> None] }

\* An expiry timer armed with no delay at all.
ExpiryDelayUnset(t) == NoDuration

\* The delay of the expiry timer: toast.duration || 5000
ExpiryDelay(t) == IF t.duration = NoDuration THEN 5000 ELSE t.duration

\* The ids of the active toasts.
ActiveIds(ts) == {ts[i].id : i \in DOMAIN ts}

\* The ToastItem of a toast that was just added: not yet mounted, no timers.
NewItem ==
  [ mounted |-> "no",     \* no, yes, gone
    expiry  |-> "none",   \* the setTimeout(..., duration): none, armed, fired, cleared
    delay   |-> NoDuration, \* the delay that timer was armed with
    pending |-> 0,        \* armed setTimeout(() => onRemove(id), 300)
    clicked |-> FALSE,    \* the dismiss button was clicked
    removed |-> 0 ]       \* removeToast calls that took this toast off the list

ToastEv(act, id, gone) == [act |-> act, id |-> id, gone |-> gone, event |-> None]

ToastInit ==
  /\ items = <<>>
  /\ dismissals = 0
  /\ toastEv = ToastEv("init", 0, {})

\* The oldest toast removed, whatever the id.
RemoveOldest(ts, id) == IF ts = <<>> THEN ts ELSE Tail(ts)

\* removeToast(id): prev.filter((t) => t.id !== id)
RemoveToast(ts, id) == SelectSeq(ts, LAMBDA t : t.id # id)

\* addToast(type, message, duration); the ids Math.random draws are taken
\* to be distinct, and are numbered in the order they are drawn.
Added(t) ==
  /\ toastSeq < MaxToasts
  /\ toastSeq' = toastSeq + 1
  /\ toasts' = Append(toasts, [id |-> toastSeq + 1] @@ t)
  /\ items' = Append(items, NewItem)
  /\ UNCHANGED dismissals

\* A component calls addToast
AddToast(t) ==
  /\ Added(t)
  /\ toastEv' = ToastEv("add", toastSeq + 1, {})

\* The bus calls the bridge's listener with (message, status)
BridgeHandler(e) ==
  /\ Added(BridgeToast(e.message, e.status))
  /\ toastEv' = [ToastEv("add", toastSeq + 1, {}) EXCEPT !.event = Some(e)]

\* The toast with the given id.
ToastOf(ts, id) == ts[CHOOSE i \in DOMAIN ts : ts[i].id = id]

\* A ToastItem whose effect arms no timer.
MountToastUnarmed(id) ==
  /\ id \in ActiveIds(toasts)
  /\ items[id].mounted = "no"
  /\ items' = [items EXCEPT ![id].mounted = "yes"]
  /\ toastEv' = ToastEv("mount", id, {})
  /\ UNCHANGED <<toasts, toastSeq, dismissals>>

\* React mounts the ToastItem of an active toast: its effect arms the
\* expiry timer
MountToast(id) ==
  /\ id \in ActiveIds(toasts)
  /\ items[id].mounted = "no"
  /\ items' = [items EXCEPT ![id].mounted = "yes", ![id].expiry = "armed",
                            ![id].delay = ExpiryDelay(ToastOf(toasts, id))]
  /\ toastEv' = ToastEv("mount", id, {})
  /\ UNCHANGED <<toasts, toastSeq, dismissals>>

\* React unmounts the ToastItem of a toast no longer on the list: the effect
\* cleanup, clearTimeout(timer)
UnmountToast(id) ==
  /\ id \in DOMAIN items
  /\ id \notin ActiveIds(toasts)
  /\ items[id].mounted = "yes"
  /\ items' = [items EXCEPT ![id].mounted = "gone",
                            ![id].expiry = IF @ = "armed" THEN "cleared" ELSE @]
  /\ toastEv' = ToastEv("unmount", id, {})
  /\ UNCHANGED <<toasts, toastSeq, dismissals>>

\* The expiry timer fires: setExiting(true); setTimeout(() => onRemove(id), 300)
ExpiryFire(id) ==
  /\ id \in DOMAIN items
  /\ items[id].expiry = "armed"
  /\ items' = [items EXCEPT ![id].expiry = "fired", ![id].pending = @ + 1]
  /\ toastEv' = ToastEv("expiry", id, {})
  /\ UNCHANGED <<toasts, toastSeq, dismissals>>

\* onClick of the dismiss button: setExiting(true);
\* setTimeout(() => onRemove(id), 300)
Dismiss(id) ==
  /\ dismissals < MaxDismiss
  /\ id \in ActiveIds(toasts)
  /\ items[id].mounted = "yes"
  /\ items' = [items EXCEPT ![id].clicked = TRUE, ![id].pending = @ + 1]
  /\ dismissals' = dismissals + 1
  /\ toastEv' = ToastEv("dismiss", id, {})
  /\ UNCHANGED <<toasts, toastSeq>>

\* A 300 ms timer fires: onRemove(id), that is removeToast(id)
RemoveFire(id) ==
  /\ id \in DOMAIN items
  /\ items[id].pending > 0
  /\ toasts' = RemoveToast(toasts, id)
  /\ items' = [items EXCEPT ![id].pending = @ - 1,
                            ![id].removed = IF id \in ActiveIds(toasts) \ ActiveIds(toasts')
                                              THEN @ + 1 ELSE @]
  /\ toastEv' = ToastEv("remove", id, ActiveIds(toasts) \ ActiveIds(toasts'))
  /\ UNCHANGED <<toastSeq, dismissals>>

\* ------------------------------------------- one poll session in the app
VARIABLES
  history   \* what each lookup of the session returned, oldest first

sessionVars == <<history>>

\* No session is traced.
SessionIdle == history = <<>>

\* A status the API reports that the hook gives no meaning to.
OtherStatus == "revoked"

\* The failures of a status lookup that reach poll() at once; a 401 first
\* runs the refresh protocol.
LookupErrors == {err \in ErrorResponses : ~EntersRefreshProtocol(err, FALSE)}

\* The hook right after startPolling("A") in a mounted app: default options,
\* signed in, the toast bridge subscribed.
SessionInit ==
  /\ opts = MergeOptions([timeout |-> 300000])
  /\ taskId = "A"
  /\ task = None
  /\ isPolling = TRUE
  /\ error = None
  /\ intervalRef = opts.initialInterval
  /\ errorCountRef = 0
  /\ startTimeRef = 0
  /\ deps = <<NULL, FALSE>>
  /\ gen = 0
  /\ cancelled = TRUE
  /\ timer = None
  /\ inflight = {}
  /\ now = 0
  /\ starts = 0
  /\ lookups = 0
  /\ completions = 0
  /\ resetDone = FALSE
  /\ stopped = "none"
  /\ lastEv = Ev("start", FALSE, NULL)
  /\ store = StoredPair(0)
  /\ calls = [c \in CallIds |-> NewCall]
  /\ href = "/"
  /\ tokSeq = 0
  /\ listeners = <<"bridge">>
  /\ toasts = <<>>
  /\ toastSeq = 0
  /\ pipeEv = PipeEv("subscribe", 0)
  /\ history = <<>>

\* getTaskStatus resolves: client.get returned, poll() goes on
SessionLookupSuccess(r, st) ==
  /\ LookupSuccess(r, st)
  /\ history' = Append(history, st)
  /\ UNCHANGED pipeVars

\* getTaskStatus rejects: the response interceptor of the client publishes
\* the error and rejects, then the catch block of poll() runs
SessionLookupFailure(r, err) ==
  /\ LookupFailure(r)
  /\ history' = Append(history, "error")
  /\ Notified(0, extractErrorMessage(err), StatusOf(err), FALSE)
  /\ pipeEv' = [PipeEv("reject", 0) EXCEPT
                  !.pub = Some([message |-> extractErrorMessage(err),
                                status |-> StatusOf(err)]),
                  !.to = Invoked(listeners, FALSE)]
  /\ UNCHANGED <<store, calls, href, tokSeq, listeners>>

\* ------------------------- notifyError with handlers that change the Set
VARIABLES
  fanPos,    \* forEach: index of the entry visited next; 0 when no publish runs
  fanBegan,  \* the listeners subscribed when the publish began
  fanCalls,  \* per handler: how often the publish has called it
  fanDoes    \* per handler: what it does to errorListeners when called

fanVars == <<fanPos, fanBegan, fanCalls, fanDoes>>

\* The handlers that subscribe with onApiError.
Handlers == {"h1", "h2", "h3"}

\* The entry forEach finds where a listener was deleted during the iteration.
Empty == "empty"

\* What a handler does when called: nothing, onApiError(who), or the
\* unsubscribe function of who.
Behaviours ==
  {[op |-> "none", who |-> Empty]}
    \cup {[op |-> o, who |-> h] : o \in {"subscribe", "unsubscribe"}, h \in Handlers}

\* The contents errorListeners can have: handlers in insertion order.
ListenerOrders ==
  {ls \in UNION {[1 .. n -> Handlers] : n \in 0 .. Cardinality(Handlers)} :
     \A i, j \in DOMAIN ls : i # j => ls[i] # ls[j]}

\* errorListeners.add(h) during the iteration
SetAdd(ls, h) == IF \E i \in DOMAIN ls : ls[i] = h THEN ls ELSE Append(ls, h)

\* errorListeners.delete(h) during the iteration
SetDelete(ls, h) == [i \in DOMAIN ls |-> IF ls[i] = h THEN Empty ELSE ls[i]]

\* The Set after handler h ran.
AfterHandler(ls, h) ==
  IF fanDoes[h].op = "subscribe" THEN SetAdd(ls, fanDoes[h].who)
  ELSE IF fanDoes[h].op = "unsubscribe" THEN SetDelete(ls, fanDoes[h].who)
  ELSE ls

\* No publish is running.
FanIdle ==
  /\ fanPos = 0
  /\ fanBegan = {}
  /\ fanCalls = [h \in Handlers |-> 0]
  /\ fanDoes = [h \in Handlers |-> [op |-> "none", who |-> Empty]]

\* notifyError was just called: forEach is about to visit the first entry.
FanInit ==
  /\ listeners \in ListenerOrders
  /\ fanDoes \in [Handlers -> Behaviours]
  /\ fanPos = 1
  /\ fanBegan = {listeners[i] : i \in DOMAIN listeners}
  /\ fanCalls = [h \in Handlers |-> 0]

\* forEach calls the next listener: fn(message, status)
FanVisit ==
  /\ fanPos \in DOMAIN listeners
  /\ listeners[fanPos] # Empty
  /\ fanCalls' = [fanCalls EXCEPT ![listeners[fanPos]] = @ + 1]
  /\ listeners' = AfterHandler(listeners, listeners[fanPos])
  /\ fanPos' = fanPos + 1
  /\ UNCHANGED <<fanBegan, fanDoes>>

\* forEach passes over an entry deleted during the iteration
FanSkip ==
  /\ fanPos \in DOMAIN listeners
  /\ listeners[fanPos] = Empty
  /\ fanPos' = fanPos + 1
  /\ UNCHANGED <<listeners, fanBegan, fanCalls, fanDoes>>

\* forEach is past the last entry: notifyError returns
FanEnd ==
  /\ fanPos > Len(listeners)
  /\ fanPos' = 0
  /\ listeners' = SelectSeq(listeners, LAMBDA l : l # Empty)
  /\ UNCHANGED <<fanBegan, fanCalls, fanDoes>>

\* ------------------------------------- extractErrorMessage on its inputs
VARIABLES
  exErr,   \* the axios error handed to extractErrorMessage
  exMsg    \* None, or Some(message) once it returned

extVars == <<exErr, exMsg>>

\* The entries of a validation error list: with a field and without.
ErrorEntries ==
  { [field |-> Some("email"), message |-> "invalid"],
    [field |-> None, message |-> "too short"] }

\* data.errors: absent (or no array), or a list of up to two entries.
ErrorLists ==
  {None} \cup {Some(es) : es \in UNION {[1 .. n -> ErrorEntries] : n \in 0 .. 2}}

\* response.data: absent (or empty), or an object whose detail is a string
\* or not, with or without an errors list.
Bodies ==
  {None} \cup {Some([detail |-> d, errors |-> es]) :
                 d \in {None, Some("Validation error")}, es \in ErrorLists}

\* The axios errors extractErrorMessage is called with: a response with a
\* body or without one, or no response; the error codes of a network
\* failure, of a timeout and of a bad response; with and without a message.
ExtractInputs ==
  { [response |-> r, code |-> c, message |-> m] :
      r \in {None} \cup {Some([status |-> 422, data |-> b]) : b \in Bodies},
      c \in {"ERR_NETWORK", "ECONNABORTED", "ERR_BAD_RESPONSE"},
      m \in {"", "Request failed with status code 422"} }

\* extractErrorMessage is not running.
ExtractIdle ==
  /\ exErr = NetworkError("ERR_NETWORK", "Network Error")
  /\ exMsg = None

ExtractInit ==
  /\ exErr \in ExtractInputs
  /\ exMsg = None

\* const message = extractErrorMessage(error)
Extract ==
  /\ exMsg = None
  /\ exMsg' = Some(extractErrorMessage(exErr))
  /\ UNCHANGED exErr

\* ------------------------- ServerDetailPage with its TaskProgress banner
VARIABLES
  activeTaskId,  \* useState: id of the task the page tracks, or NULL
  awaiting,      \* the task-start calls awaiting their response
  tpDeps,        \* the taskId prop TaskProgress last rendered with
  issued         \* task-start calls issued so far

pageVars == <<activeTaskId, awaiting, tpDeps, issued>>

\* The page before any click.
PageIdle ==
  /\ activeTaskId = NULL
  /\ awaiting = {}
  /\ tpDeps = NULL
  /\ issued = 0

\* t.task_id of the k-th task-start call: the API starts a new task each time.
TaskOfCall(k) == IF k = 1 THEN "A" ELSE "B"

\* const isTaskActive = activeTaskId !== null, as of the last render: what
\* the handlers' closures and the buttons' disabled attribute hold
IsTaskActive == tpDeps # NULL

\* handleTestConnection / handleSystemInfo / handleInstallDeps up to the
\* await: if (!server || isTaskActive) return; the start call is issued
ClickStart ==
  /\ ~IsTaskActive
  /\ issued < Cardinality(TaskIds)
  /\ issued' = issued + 1
  /\ awaiting' = awaiting \cup {issued + 1}
  /\ UNCHANGED <<activeTaskId, tpDeps, pollerVars>>

\* The start call resolves: setTaskLabel(...); setActiveTaskId(t.task_id)
StartOk(k) ==
  /\ k \in awaiting
  /\ awaiting' = awaiting \ {k}
  /\ activeTaskId' = TaskOfCall(k)
  /\ UNCHANGED <<tpDeps, issued, pollerVars>>

\* The start call rejects: setActionError(...)
StartFail(k) ==
  /\ k \in awaiting
  /\ awaiting' = awaiting \ {k}
  /\ UNCHANGED <<activeTaskId, tpDeps, issued, pollerVars>>

\* React renders the page with the new activeTaskId and runs the effect of
\* TaskProgress: startPolling(taskId), or reset() when it is null
PageRender ==
  /\ tpDeps # activeTaskId
  /\ tpDeps' = activeTaskId
  /\ IF activeTaskId # NULL THEN StartPolling(activeTaskId) ELSE Reset
  /\ UNCHANGED <<activeTaskId, awaiting, issued>>

\* A status lookup resolves; for a terminal status the hook calls the
\* page's onComplete: setActiveTaskId(null); loadData()
PageLookupSuccess(r, st) ==
  /\ LookupSuccess(r, st)
  /\ activeTaskId' = IF lastEv'.completed THEN NULL ELSE activeTaskId
  /\ UNCHANGED <<awaiting, tpDeps, issued>>

\* -------------------------------- one poll session against a remote task
VARIABLES
  remote   \* the status of the task on the server

liveVars == <<remote>>

\* No remote task is modelled.
RemoteIdle == remote = "pending"

\* The options of the session: a timeout of three initial intervals and an
\* error budget of two.
LiveOptions == [timeout |-> 3000, maxErrors |-> 2]

\* The state right after startPolling("A") with those options.
LiveInit ==
  /\ opts = MergeOptions(LiveOptions)
  /\ taskId = "A"
  /\ task = None
  /\ isPolling = TRUE
  /\ error = None
  /\ intervalRef = opts.initialInterval
  /\ errorCountRef = 0
  /\ startTimeRef = 0
  /\ deps = <<NULL, FALSE>>
  /\ gen = 0
  /\ cancelled = TRUE
  /\ timer = None
  /\ inflight = {}
  /\ now = 0
  /\ starts = 0
  /\ lookups = 0
  /\ completions = 0
  /\ resetDone = FALSE
  /\ stopped = "none"
  /\ lastEv = Ev("start", FALSE, NULL)
  /\ remote = "pending"

\* The worker moves the task on: pending, running, then success or failed.
RemoteAdvance(st) ==
  /\ \/ remote = "pending" /\ st \in {"running", "success", "failed"}
     \/ remote = "running" /\ st \in {"success", "failed"}
  /\ remote' = st
  /\ UNCHANGED pollerVars

\* await getTaskStatus(taskId) returns the task as it is on the server
LiveLookupSuccess(r) ==
  /\ LookupSuccess(r, remote)
  /\ UNCHANGED remote

\* ---------------------------------------------------------- specifications
vars == <<pollerVars, pipeVars, toastVars, sessionVars, fanVars, extVars, pageVars, liveVars>>

\* The hook as mounted with the default options, before any startPolling.
PollerIdle == PollerInit /\ opts = MergeOptions([timeout |-> 300000])

\* The pipeline of a signed-in session before any call.
PipeIdle == PipeInit /\ store = StoredPair(0)

PollerNext ==
  \/ \E id \in TaskIds : StartPolling(id) /\ UNCHANGED <<pipeVars, toastVars, sessionVars, fanVars, extVars, pageVars, liveVars>>
  \/ Reset /\ UNCHANGED <<pipeVars, toastVars, sessionVars, fanVars, extVars, pageVars, liveVars>>
  \/ Commit /\ UNCHANGED <<pipeVars, toastVars, sessionVars, fanVars, extVars, pageVars, liveVars>>
  \/ TimerFire /\ UNCHANGED <<pipeVars, toastVars, sessionVars, fanVars, extVars, pageVars, liveVars>>
  \/ \E r \in inflight, st \in Statuses : LookupSuccess(r, st) /\ UNCHANGED <<pipeVars, toastVars, sessionVars, fanVars, extVars, pageVars, liveVars>>
  \/ \E r \in inflight : LookupFailure(r) /\ UNCHANGED <<pipeVars, toastVars, sessionVars, fanVars, extVars, pageVars, liveVars>>
  \/ \E d \in TickSteps : Tick(d) /\ UNCHANGED <<pipeVars, toastVars, sessionVars, fanVars, extVars, pageVars, liveVars>>

\* The task poller alone.
InitPoller == PollerInit /\ PipeIdle /\ ToastInit /\ SessionIdle /\ FanIdle /\ ExtractIdle /\ PageIdle /\ RemoteIdle

SpecPoller == InitPoller /\ [][PollerNext]_vars

PipeNext ==
  \/ Subscribe("bridge") /\ UNCHANGED <<pollerVars, toastVars, sessionVars, fanVars, extVars, pageVars, liveVars>>
  \/ Unsubscribe("bridge") /\ UNCHANGED <<pollerVars, toastVars, sessionVars, fanVars, extVars, pageVars, liveVars>>
  \/ \E c \in CallIds : Send(c) /\ UNCHANGED <<pollerVars, toastVars, sessionVars, fanVars, extVars, pageVars, liveVars>>
  \/ \E c \in CallIds : ResponseOk(c) /\ UNCHANGED <<pollerVars, toastVars, sessionVars, fanVars, extVars, pageVars, liveVars>>
  \/ \E c \in CallIds, err \in ErrorResponses : ResponseError(c, err) /\ UNCHANGED <<pollerVars, toastVars, sessionVars, fanVars, extVars, pageVars, liveVars>>
  \/ \E c \in CallIds : RefreshOk(c) /\ UNCHANGED <<pollerVars, toastVars, sessionVars, fanVars, extVars, pageVars, liveVars>>
  \/ \E c \in CallIds : RefreshFail(c) /\ UNCHANGED <<pollerVars, toastVars, sessionVars, fanVars, extVars, pageVars, liveVars>>

\* The request pipeline, the error bus and the toast bridge alone.
InitPipe == PollerIdle /\ PipeInit /\ ToastInit /\ SessionIdle /\ FanIdle /\ ExtractIdle /\ PageIdle /\ RemoteIdle

SpecPipe == InitPipe /\ [][PipeNext]_vars

\* The error bus with two subscribers, in a signed-in session.
BusNext ==
  \/ \E l \in Listeners : Subscribe(l) /\ UNCHANGED <<pollerVars, toastVars, sessionVars, fanVars, extVars, pageVars, liveVars>>
  \/ \E l \in Listeners : Unsubscribe(l) /\ UNCHANGED <<pollerVars, toastVars, sessionVars, fanVars, extVars, pageVars, liveVars>>
  \/ \E c \in CallIds : Send(c) /\ UNCHANGED <<pollerVars, toastVars, sessionVars, fanVars, extVars, pageVars, liveVars>>
  \/ \E c \in CallIds : ResponseOk(c) /\ UNCHANGED <<pollerVars, toastVars, sessionVars, fanVars, extVars, pageVars, liveVars>>
  \/ \E c \in CallIds, err \in ErrorResponses : ResponseError(c, err) /\ UNCHANGED <<pollerVars, toastVars, sessionVars, fanVars, extVars, pageVars, liveVars>>
  \/ \E c \in CallIds : RefreshOk(c) /\ UNCHANGED <<pollerVars, toastVars, sessionVars, fanVars, extVars, pageVars, liveVars>>
  \/ \E c \in CallIds : RefreshFail(c) /\ UNCHANGED <<pollerVars, toastVars, sessionVars, fanVars, extVars, pageVars, liveVars>>

InitBus == PollerIdle /\ PipeIdle /\ ToastInit /\ SessionIdle /\ FanIdle /\ ExtractIdle /\ PageIdle /\ RemoteIdle

SpecBus == InitBus /\ [][BusNext]_vars

\* The same with a probe listener that may raise when it is called.
RaisingNext ==
  \/ \E l \in Listeners : Subscribe(l) /\ UNCHANGED <<pollerVars, toastVars, sessionVars, fanVars, extVars, pageVars, liveVars>>
  \/ \E l \in Listeners : Unsubscribe(l) /\ UNCHANGED <<pollerVars, toastVars, sessionVars, fanVars, extVars, pageVars, liveVars>>
  \/ \E c \in CallIds : Send(c) /\ UNCHANGED <<pollerVars, toastVars, sessionVars, fanVars, extVars, pageVars, liveVars>>
  \/ \E c \in CallIds : ResponseOk(c) /\ UNCHANGED <<pollerVars, toastVars, sessionVars, fanVars, extVars, pageVars, liveVars>>
  \/ \E c \in CallIds, err \in ErrorResponses, raises \in BOOLEAN :
       ResponseErrorWith(c, err, raises) /\ UNCHANGED <<pollerVars, toastVars, sessionVars, fanVars, extVars, pageVars, liveVars>>
  \/ \E c \in CallIds : RefreshOk(c) /\ UNCHANGED <<pollerVars, toastVars, sessionVars, fanVars, extVars, pageVars, liveVars>>
  \/ \E c \in CallIds : RefreshFail(c) /\ UNCHANGED <<pollerVars, toastVars, sessionVars, fanVars, extVars, pageVars, liveVars>>

InitRaising == PipeIdle /\ PollerIdle /\ ToastInit /\ SessionIdle /\ FanIdle /\ ExtractIdle /\ PageIdle /\ RemoteIdle

SpecRaising == InitRaising /\ [][RaisingNext]_vars

\* The toast provider fed by the bridge: toasts are added for published
\* events, expire and are dismissed.
ToastNext ==
  \/ \E e \in PublishedEvents : BridgeHandler(e) /\ UNCHANGED <<pollerVars, busVars, sessionVars, fanVars, extVars, pageVars, liveVars>>
  \/ \E id \in 1 .. toastSeq : MountToast(id) /\ UNCHANGED <<pollerVars, busVars, sessionVars, fanVars, extVars, pageVars, liveVars>>
  \/ \E id \in 1 .. toastSeq : UnmountToast(id) /\ UNCHANGED <<pollerVars, busVars, sessionVars, fanVars, extVars, pageVars, liveVars>>
  \/ \E id \in 1 .. toastSeq : ExpiryFire(id) /\ UNCHANGED <<pollerVars, busVars, sessionVars, fanVars, extVars, pageVars, liveVars>>
  \/ \E id \in 1 .. toastSeq : Dismiss(id) /\ UNCHANGED <<pollerVars, busVars, sessionVars, fanVars, extVars, pageVars, liveVars>>
  \/ \E id \in 1 .. toastSeq : RemoveFire(id) /\ UNCHANGED <<pollerVars, busVars, sessionVars, fanVars, extVars, pageVars, liveVars>>

InitToast == PollerIdle /\ PipeIdle /\ ToastInit /\ SessionIdle /\ FanIdle /\ ExtractIdle /\ PageIdle /\ RemoteIdle

SpecToast == InitToast /\ [][ToastNext]_vars

\* React mounts what it renders and the browser fires the armed timers:
\* while a mount or a timer is due, one of them happens.
ToastFairness ==
  /\ WF_vars(\E id \in 1 .. toastSeq : MountToast(id) /\ UNCHANGED <<pollerVars, busVars, sessionVars, fanVars, extVars, pageVars, liveVars>>)
  /\ WF_vars(\E id \in 1 .. toastSeq : ExpiryFire(id) /\ UNCHANGED <<pollerVars, busVars, sessionVars, fanVars, extVars, pageVars, liveVars>>)
  /\ WF_vars(\E id \in 1 .. toastSeq : RemoveFire(id) /\ UNCHANGED <<pollerVars, busVars, sessionVars, fanVars, extVars, pageVars, liveVars>>)

\* The toast provider called by components: toasts are added with and
\* without a duration, expire and are dismissed.
ExpiryNext ==
  \/ \E t \in ToastInputs : AddToast(t) /\ UNCHANGED <<pollerVars, busVars, sessionVars, fanVars, extVars, pageVars, liveVars>>
  \/ \E id \in 1 .. toastSeq : MountToast(id) /\ UNCHANGED <<pollerVars, busVars, sessionVars, fanVars, extVars, pageVars, liveVars>>
  \/ \E id \in 1 .. toastSeq : UnmountToast(id) /\ UNCHANGED <<pollerVars, busVars, sessionVars, fanVars, extVars, pageVars, liveVars>>
  \/ \E id \in 1 .. toastSeq : ExpiryFire(id) /\ UNCHANGED <<pollerVars, busVars, sessionVars, fanVars, extVars, pageVars, liveVars>>
  \/ \E id \in 1 .. toastSeq : Dismiss(id) /\ UNCHANGED <<pollerVars, busVars, sessionVars, fanVars, extVars, pageVars, liveVars>>
  \/ \E id \in 1 .. toastSeq : RemoveFire(id) /\ UNCHANGED <<pollerVars, busVars, sessionVars, fanVars, extVars, pageVars, liveVars>>

SpecExpiry == InitToast /\ [][ExpiryNext]_vars /\ ToastFairness

\* One poll session from startPolling on, its lookups going through the
\* client.
SessionNext ==
  \/ Commit /\ UNCHANGED <<pipeVars, toastVars, sessionVars, fanVars, extVars, pageVars, liveVars>>
  \/ TimerFire /\ UNCHANGED <<pipeVars, toastVars, sessionVars, fanVars, extVars, pageVars, liveVars>>
  \/ \E r \in inflight, st \in Statuses \cup {OtherStatus} :
       SessionLookupSuccess(r, st) /\ UNCHANGED <<toastVars, fanVars, extVars, pageVars, liveVars>>
  \/ \E r \in inflight, err \in LookupErrors :
       SessionLookupFailure(r, err) /\ UNCHANGED <<toastVars, fanVars, extVars, pageVars, liveVars>>

InitSession == SessionInit /\ ToastInit /\ FanIdle /\ ExtractIdle /\ PageIdle /\ RemoteIdle

SpecSession == InitSession /\ [][SessionNext]_vars

\* One publish, from the call of notifyError to its return, with handlers
\* that subscribe and unsubscribe while it runs.
FanoutNext ==
  \/ FanVisit /\ UNCHANGED <<pollerVars, toastVars, sessionVars, extVars, pageVars, liveVars,
                              store, calls, href, tokSeq, toasts, toastSeq, pipeEv>>
  \/ FanSkip /\ UNCHANGED <<pollerVars, toastVars, sessionVars, extVars, pageVars, liveVars,
                             store, calls, href, tokSeq, toasts, toastSeq, pipeEv>>
  \/ FanEnd /\ UNCHANGED <<pollerVars, toastVars, sessionVars, extVars, pageVars, liveVars,
                            store, calls, href, tokSeq, toasts, toastSeq, pipeEv>>

InitFanout ==
  /\ PollerIdle
  /\ store = StoredPair(0)
  /\ calls = [c \in CallIds |-> NewCall]
  /\ href = "/"
  /\ tokSeq = 0
  /\ toasts = <<>>
  /\ toastSeq = 0
  /\ pipeEv = PipeEv("init", 0)
  /\ ToastInit
  /\ SessionIdle
  /\ FanInit
  /\ ExtractIdle
  /\ PageIdle
  /\ RemoteIdle

SpecFanout == InitFanout /\ [][FanoutNext]_vars

\* extractErrorMessage applied to one axios error.
ExtractNext ==
  Extract /\ UNCHANGED <<pollerVars, pipeVars, toastVars, sessionVars, fanVars, pageVars, liveVars>>

InitExtract ==
  /\ PollerIdle /\ PipeIdle /\ ToastInit /\ SessionIdle /\ FanIdle /\ ExtractInit
  /\ PageIdle /\ RemoteIdle

SpecExtract == InitExtract /\ [][ExtractNext]_vars

\* The pipeline with registration and no subscriber, from a store that holds
\* both tokens or neither.
StoreNext ==
  \/ \E c \in CallIds : Send(c) /\ UNCHANGED <<pollerVars, toastVars, sessionVars, fanVars, extVars, pageVars, liveVars>>
  \/ \E c \in CallIds : ResponseOk(c) /\ UNCHANGED <<pollerVars, toastVars, sessionVars, fanVars, extVars, pageVars, liveVars>>
  \/ \E c \in CallIds, err \in ErrorResponses : ResponseError(c, err) /\ UNCHANGED <<pollerVars, toastVars, sessionVars, fanVars, extVars, pageVars, liveVars>>
  \/ \E c \in CallIds : RefreshOk(c) /\ UNCHANGED <<pollerVars, toastVars, sessionVars, fanVars, extVars, pageVars, liveVars>>
  \/ \E c \in CallIds : RefreshFail(c) /\ UNCHANGED <<pollerVars, toastVars, sessionVars, fanVars, extVars, pageVars, liveVars>>
  \/ Register /\ UNCHANGED <<pollerVars, toastVars, sessionVars, fanVars, extVars, pageVars, liveVars>>

InitStore == InitPipe /\ (store.access = None <=> store.refresh = None)

SpecStore == InitStore /\ [][StoreNext]_vars

\* The server detail page: clicks on the task-start buttons, the start calls,
\* the TaskProgress banner and its poller.
PageNext ==
  \/ ClickStart /\ UNCHANGED <<pipeVars, toastVars, sessionVars, fanVars, extVars, liveVars>>
  \/ \E k \in awaiting : StartOk(k) /\ UNCHANGED <<pipeVars, toastVars, sessionVars, fanVars, extVars, liveVars>>
  \/ \E k \in awaiting : StartFail(k) /\ UNCHANGED <<pipeVars, toastVars, sessionVars, fanVars, extVars, liveVars>>
  \/ PageRender /\ UNCHANGED <<pipeVars, toastVars, sessionVars, fanVars, extVars, liveVars>>
  \/ Commit /\ UNCHANGED <<pipeVars, toastVars, sessionVars, fanVars, extVars, pageVars, liveVars>>
  \/ TimerFire /\ UNCHANGED <<pipeVars, toastVars, sessionVars, fanVars, extVars, pageVars, liveVars>>
  \/ \E r \in inflight, st \in Statuses :
       PageLookupSuccess(r, st) /\ UNCHANGED <<pipeVars, toastVars, sessionVars, fanVars, extVars, liveVars>>
  \/ \E r \in inflight : LookupFailure(r) /\ UNCHANGED <<pipeVars, toastVars, sessionVars, fanVars, extVars, pageVars, liveVars>>
  \/ \E d \in TickSteps :
       /\ deps = <<taskId, isPolling>>
       /\ Tick(d)
       /\ UNCHANGED <<pipeVars, toastVars, sessionVars, fanVars, extVars, pageVars, liveVars>>

InitPage ==
  /\ PollerIdle /\ PipeIdle /\ ToastInit /\ SessionIdle /\ FanIdle /\ ExtractIdle
  /\ PageIdle /\ RemoteIdle

SpecPage == InitPage /\ [][PageNext]_vars

\* One poll session against a remote task, from startPolling on; time
\* passes while a lookup or a timer is awaited, not while React commits, and
\* a timer fires when it is due.
LiveNext ==
  \/ Reset /\ UNCHANGED <<pipeVars, toastVars, sessionVars, fanVars, extVars, pageVars, liveVars>>
  \/ Commit /\ UNCHANGED <<pipeVars, toastVars, sessionVars, fanVars, extVars, pageVars, liveVars>>
  \/ TimerFire /\ UNCHANGED <<pipeVars, toastVars, sessionVars, fanVars, extVars, pageVars, liveVars>>
  \/ \E r \in inflight : LiveLookupSuccess(r) /\ UNCHANGED <<pipeVars, toastVars, sessionVars, fanVars, extVars, pageVars>>
  \/ \E r \in inflight : LookupFailure(r) /\ UNCHANGED <<pipeVars, toastVars, sessionVars, fanVars, extVars, pageVars, liveVars>>
  \/ \E st \in Statuses : RemoteAdvance(st) /\ UNCHANGED <<pipeVars, toastVars, sessionVars, fanVars, extVars, pageVars>>
  \/ \E d \in TickSteps :
       /\ deps = <<taskId, isPolling>>
       /\ IF timer = None THEN TRUE ELSE now + d <= TimerDue
       /\ Tick(d) /\ UNCHANGED <<pipeVars, toastVars, sessionVars, fanVars, extVars, pageVars, liveVars>>

\* React runs the effects of what it rendered, armed timers fire and every
\* lookup is answered or fails.
LiveFairness ==
  /\ WF_vars(Commit /\ UNCHANGED <<pipeVars, toastVars, sessionVars, fanVars, extVars, pageVars, liveVars>>)
  /\ WF_vars(TimerFire /\ UNCHANGED <<pipeVars, toastVars, sessionVars, fanVars, extVars, pageVars, liveVars>>)
  /\ WF_vars(\E r \in inflight :
               (LiveLookupSuccess(r) \/ (LookupFailure(r) /\ UNCHANGED remote))
               /\ UNCHANGED <<pipeVars, toastVars, sessionVars, fanVars, extVars, pageVars>>)

InitLive ==
  /\ LiveInit /\ PipeIdle /\ ToastInit /\ SessionIdle /\ FanIdle /\ ExtractIdle
  /\ PageIdle

SpecLive == InitLive /\ [][LiveNext]_vars /\ LiveFairness

\* ------------------------------------------------------- poller properties

\* C1: in every poll session begun by startPolling, onComplete is invoked at
\* most once, and every invocation passes a task whose status is success or
\* failed, in a session that has not stopped for timeout or error budget.
C1_OnCompleteOnceTerminal ==
  /\ completions <= 1
  /\ lastEv.completed =>
       /\ lastEv.status \in {"success", "failed"}
       /\ stopped = "none"

C1_Witness == lastEv.completed /\ completions = 1 /\ lookups >= 2

\* C2: after reset(), no lookup or timer of the session that was polling
\* changes task, isPolling, error, the interval or the error count, or
\* invokes onComplete.
C2_ResetSilencesLookups ==
  [][(resetDone /\ lastEv'.act \in {"success", "failure", "timer"})
       => UNCHANGED <<task, isPolling, error, intervalRef, errorCountRef,
                      completions>>]_vars

\* C3 as stated: isPolling is false once more than `timeout` ms have passed
\* since startPolling.
C3_StopsWithinTimeout == isPolling => now - startTimeRef <= opts.timeout

\* C3 amended: a lookup attempt that begins more than `timeout` ms after
\* startPolling issues no lookup and sets isPolling false; an attempt that
\* begins earlier issues its lookup.
C3_NoLookupAfterTimeout ==
  (lastEv.act \in {"timer", "commit"} /\ lastEv.live) =>
     IF now - startTimeRef > opts.timeout
       THEN ~lastEv.issued /\ ~isPolling
       ELSE lastEv.issued

C3_Witness ==
  /\ lastEv.act = "timer"
  /\ ~lastEv.issued
  /\ now - startTimeRef > opts.timeout
  /\ ~isPolling
  /\ errorCountRef < opts.maxErrors

\* C4 as stated: after a successful lookup that reported running the interval
\* is at least initialInterval, and after any failed lookup it is at most
\* maxInterval.
C4_IntervalBoundsAfterLookup ==
  /\ (lastEv.act = "success" /\ lastEv.live /\ lastEv.status = "running")
       => RatLeq(opts.initialInterval, intervalRef)
  /\ (lastEv.act = "failure" /\ lastEv.live)
       => RatLeq(intervalRef, opts.maxInterval)

\* C4 amended: after a successful lookup that reported running the interval
\* is at least initialInterval, and after a failed lookup that leaves the
\* error count below maxErrors it is at most maxInterval.
C4_IntervalBoundsAfterBackoff ==
  /\ (lastEv.act = "success" /\ lastEv.live /\ lastEv.status = "running")
       => RatLeq(opts.initialInterval, intervalRef)
  /\ (lastEv.act = "failure" /\ lastEv.live /\ errorCountRef < opts.maxErrors)
       => RatLeq(intervalRef, opts.maxInterval)

C4_Witness ==
  /\ lastEv.act = "failure"
  /\ lastEv.live
  /\ errorCountRef < opts.maxErrors
  /\ intervalRef = opts.maxInterval
  /\ opts.initialInterval # opts.maxInterval

\* C5: right after a lookup that returned successfully in a session that is
\* not cancelled, the consecutive error count is 0, whatever it was before.
C5_SuccessResetsErrorCount ==
  (lastEv.act = "success" /\ lastEv.live) => errorCountRef = 0

C5_Witness ==
  /\ lastEv.act = "success"
  /\ lastEv.live
  /\ lastEv.prevCount > 0
  /\ errorCountRef = 0

\* C14: a failed lookup that brings the consecutive error count to maxErrors
\* sets error to "Task polling failed after <maxErrors> attempts" and
\* isPolling to false, arms no timer, issues no lookup, does not invoke
\* onComplete and leaves task as it was; a failed lookup that leaves the
\* count below maxErrors arms the next timer and stops nothing; that error
\* is set by no other step; and while isPolling is true the count is below
\* maxErrors.
C14_StopsWhenBudgetExhausted ==
  /\ [](isPolling => errorCountRef < opts.maxErrors)
  /\ [][ LET failed == lastEv'.act = "failure" /\ lastEv'.live
             exhausted == errorCountRef + 1 >= opts.maxErrors
         IN /\ (failed /\ exhausted) =>
                 /\ errorCountRef' = opts.maxErrors
                 /\ error' = Some(BudgetError(opts.maxErrors))
                 /\ ~isPolling'
                 /\ timer' = None
                 /\ lookups' = lookups
                 /\ UNCHANGED <<task, completions>>
            /\ (failed /\ ~exhausted) =>
                 /\ timer' # None
                 /\ UNCHANGED <<error, isPolling>>
            /\ (error' = Some(BudgetError(opts.maxErrors)) /\ error' # error) =>
                 (failed /\ exhausted) ]_vars

C14_Witness ==
  /\ lastEv.act = "failure"
  /\ stopped = "budget"
  /\ error = Some(BudgetError(opts.maxErrors))
  /\ opts.maxErrors >= 2
  /\ errorCountRef = opts.maxErrors
  /\ task # None
  /\ completions = 0
  /\ ~isPolling

\* C18: with initialInterval <= maxInterval and backoffFactor >= 1 the
\* current interval is in [initialInterval, maxInterval] in every state.
C18_IntervalWithinBounds ==
  (RatLeq(opts.initialInterval, opts.maxInterval) /\ RatLeq(Rat(1, 1), opts.backoffFactor))
    => /\ RatLeq(opts.initialInterval, intervalRef)
       /\ RatLeq(intervalRef, opts.maxInterval)

C18_Witness ==
  /\ RatLeq(opts.initialInterval, opts.maxInterval)
  /\ RatLeq(Rat(1, 1), opts.backoffFactor)
  /\ opts.initialInterval # opts.maxInterval
  /\ lastEv.act = "success"
  /\ lastEv.live
  /\ lastEv.status = "running"
  /\ lastEv.prevCount > 0
  /\ intervalRef = opts.initialInterval
  /\ timer # None
  /\ timer[1].delay = intervalRef

\* C19: no lookup is issued while another lookup of the same effect instance
\* is unresolved, and while the timer for the next lookup is armed no lookup
\* of the polling instance is unresolved.
C19_LookupsSequential ==
  /\ ~lastEv.overlap
  /\ timer # None => \A r \in inflight : r.gen # gen

C19_Witness ==
  /\ lastEv.act = "timer"
  /\ lastEv.issued
  /\ \E r \in inflight : r.gen = gen
  /\ \E r \in inflight : r.gen # gen
  /\ timer = None

\* C20: a lookup attempt that begins when more than `timeout` ms have
\* passed since startPolling issues no lookup, sets error to "Task polling
\* timed out" and isPolling to false, arms no timer, does not invoke
\* onComplete and leaves task as it was.
C20_TimedOutAttemptStops ==
  [][ ( /\ lastEv'.act \in {"timer", "commit"}
        /\ lastEv'.live
        /\ now' - startTimeRef > opts.timeout )
      => /\ lookups' = lookups
         /\ inflight' = inflight
         /\ error' = Some(TimeoutError)
         /\ ~isPolling'
         /\ timer' = None
         /\ UNCHANGED <<task, completions, errorCountRef, intervalRef>> ]_vars

C20_Witness ==
  /\ lastEv.act \in {"timer", "commit"}
  /\ lastEv.live
  /\ ~lastEv.issued
  /\ stopped = "timeout"
  /\ error = Some(TimeoutError)
  /\ task # None
  /\ completions = 0
  /\ timer = None

\* C21: while the session has not stopped for timeout or error budget, a
\* failed lookup has set no poller error and has put no toast on the active
\* list; a stop for timeout or budget shows in the error field.
C21_TransientFailuresSilent ==
  /\ stopped = "none" => (error = None /\ toasts = <<>>)
  /\ stopped # "none" => error # None

\* Three failed lookups from start, then a success with a status other
\* than running.
ThreeFailuresThenQuiet ==
  /\ Len(history) = 4
  /\ SubSeq(history, 1, 3) = <<"error", "error", "error">>
  /\ history[4] \notin {"error", "running"}

\* C22 as stated: with initialInterval 1000, backoffFactor 1.5 and
\* maxInterval 10000 the interval is 2250 after three failed lookups in a
\* row from start, and a fourth lookup that succeeds with a status other than
\* running sets the error count to 0 and leaves the interval at 2250.
C22_IntervalAfterThreeFailures ==
  /\ history = <<"error", "error", "error">> => intervalRef = Rat(2250, 1)
  /\ ThreeFailuresThenQuiet => (errorCountRef = 0 /\ intervalRef = Rat(2250, 1))

\* C22 amended: the interval is 1000 at start, 1500 after one failed lookup,
\* 2250 after two and 3375 after three in a row from start, and a fourth
\* lookup that succeeds with a status other than running sets the error
\* count to 0 and leaves the interval at 3375.
C22_BackoffProgression ==
  /\ history = <<>> => (intervalRef = Rat(1000, 1) /\ errorCountRef = 0)
  /\ history = <<"error">> => (intervalRef = Rat(1500, 1) /\ errorCountRef = 1)
  /\ history = <<"error", "error">> => (intervalRef = Rat(2250, 1) /\ errorCountRef = 2)
  /\ history = <<"error", "error", "error">> =>
       (intervalRef = Rat(3375, 1) /\ errorCountRef = 3)
  /\ ThreeFailuresThenQuiet => (errorCountRef = 0 /\ intervalRef = Rat(3375, 1))

C22_Witness ==
  /\ history = <<"error", "error", "error", "pending">>
  /\ errorCountRef = 0
  /\ intervalRef = Rat(3375, 1)
  /\ timer # None
  /\ timer[1].delay = Rat(3375, 1)

\* C23: a successful lookup that reports running sets the interval to
\* max(initialInterval, 0.8 * interval), one that reports pending or another
\* status that is not terminal leaves it; after pending, pending, running,
\* running from 1000 the interval is 1000, and a success that follows
\* completes once with the interval still 1000.
C23_TightenOnRunningOnly ==
  /\ [][ (lastEv'.act = "success" /\ lastEv'.live) =>
            IF lastEv'.status = "running"
              THEN intervalRef' = RatMax(opts.initialInterval,
                                         RatMul(intervalRef, Rat(4, 5)))
              ELSE intervalRef' = intervalRef ]_vars
  /\ [](history = <<"pending", "pending", "running", "running">>
          => intervalRef = Rat(1000, 1))
  /\ [](history = <<"pending", "pending", "running", "running", "success">>
          => (intervalRef = Rat(1000, 1) /\ completions = 1 /\ ~isPolling))

C23_Witness ==
  /\ history = <<"pending", "pending", "running", "running", "success">>
  /\ intervalRef = Rat(1000, 1)
  /\ completions = 1
  /\ task = Some([id |-> "A", status |-> "success"])

\* C24: right after any startPolling(id) the interval is initialInterval,
\* the error count 0, task and error none, isPolling true, the start time
\* the current time, and the effect is due to run again, which issues the
\* first lookup at once.
C24_StartIssuesLookupAtOnce ==
  lastEv.act = "start" =>
    /\ intervalRef = opts.initialInterval
    /\ errorCountRef = 0
    /\ task = None
    /\ error = None
    /\ isPolling
    /\ taskId # NULL
    /\ startTimeRef = now
    /\ deps # <<taskId, isPolling>>

\* The task holds a terminal status.
TaskTerminal == task # None /\ task[1].status \in {"success", "failed"}

\* C25: a lookup that returns success or failed leaves isPolling false, the
\* returned task stored, no timer armed and no lookup of the polling
\* instance unresolved; and while that task is stored, no step other than
\* startPolling or reset changes task, isPolling, the interval or the error
\* count, issues a lookup or arms a timer.
C25_NothingAfterTerminal ==
  /\ []((lastEv.act = "success" /\ lastEv.live /\ lastEv.status \in {"success", "failed"})
          => /\ ~isPolling
             /\ TaskTerminal
             /\ task[1].status = lastEv.status
             /\ timer = None
             /\ \A r \in inflight : r.gen # gen)
  /\ [][ (TaskTerminal /\ lastEv'.act \notin {"start", "reset"})
          => /\ timer' = None
             /\ UNCHANGED <<task, isPolling, intervalRef, errorCountRef, lookups,
                            completions, error>> ]_vars

C25_Witness ==
  /\ TaskTerminal
  /\ lastEv.act = "commit"
  /\ ~lastEv.live
  /\ cancelled
  /\ lookups >= 3
  /\ inflight = {}
  /\ timer = None
  /\ ~isPolling

\* ----------------------------------------------------- pipeline properties
Settled(c) == calls[c].pc \in {"resolved", "rejected"}

\* The response the call received last.
LastResp(c) == calls[c].resp[Len(calls[c].resp)]

\* The call was rejected after a response other than 401, or none at all.
FailedOther(c) == calls[c].pc = "rejected" /\ StatusOf(LastResp(c)) # Some(401)

\* C6: for each original call the refresh endpoint is called at most once
\* and the call is re-issued at most once; when the re-issued call receives
\* 401 too, the protocol is not entered again and the caller's call rejects.
C6_RefreshAndRetryAtMostOnce ==
  \A c \in CallIds :
    /\ calls[c].refreshCalls <= 1
    /\ Len(calls[c].sent) <= 2
    /\ (Len(calls[c].resp) = 2 /\ StatusOf(calls[c].resp[2]) = Some(401)) =>
         /\ calls[c].pc = "rejected"
         /\ calls[c].outcome = Some(calls[c].resp[2])

C6_Witness ==
  \E c \in CallIds :
    /\ Len(calls[c].resp) = 2
    /\ StatusOf(calls[c].resp[2]) = Some(401)
    /\ calls[c].pc = "rejected"
    /\ calls[c].refreshCalls = 1

\* C7: when a call received 401, a refresh token was stored and the refresh
\* succeeded, the store right afterwards holds the pair that refresh
\* returned, the call is re-issued once with the new access token as
\* bearer, and the caller receives the outcome of the re-issued call.
C7_RefreshSuccessRetriesOnce ==
  /\ pipeEv.act = "refreshOk" =>
       store = [access |-> Some(AccessToken(calls[pipeEv.call].got[1])),
                refresh |-> Some(RefreshToken(calls[pipeEv.call].got[1]))]
  /\ \A c \in CallIds :
       calls[c].got # None =>
         /\ Len(calls[c].sent) = 2
         /\ calls[c].sent[2] = Some(AccessToken(calls[c].got[1]))
         /\ StatusOf(calls[c].resp[1]) = Some(401)
         /\ Settled(c) =>
              /\ Len(calls[c].resp) = 2
              /\ calls[c].outcome = Some(calls[c].resp[2])

C7_Witness ==
  \E c \in CallIds :
    /\ calls[c].got # None
    /\ calls[c].pc = "resolved"
    /\ calls[c].outcome = Some(OkResponse)
    /\ store.refresh = Some(RefreshToken(calls[c].got[1]))

\* C8: when a call received 401 and the refresh call failed, both
\* credentials are absent from the store right afterwards, a redirect to
\* /login is issued, the call is not re-issued, and the caller's call
\* rejects with the original 401 error.
C8_RefreshFailureClearsAndRejects ==
  pipeEv.act = "refreshFail" =>
    LET call == calls[pipeEv.call] IN
      /\ store = [access |-> None, refresh |-> None]
      /\ href = "/login"
      /\ call.redirected
      /\ Len(call.sent) = 1
      /\ call.pc = "rejected"
      /\ call.outcome = Some(call.resp[1])
      /\ StatusOf(call.resp[1]) = Some(401)

C8_Witness == pipeEv.act = "refreshFail" /\ calls[pipeEv.call].refreshWith # None

\* C9: when a call received 401 and no refresh token is stored, no access
\* token remains in the store, a redirect to /login is issued, no refresh
\* call is made, the call is not re-issued and the caller's call rejects.
C9_NoRefreshTokenAborts ==
  pipeEv.act = "noRefresh" =>
    LET call == calls[pipeEv.call] IN
      /\ store.access = None
      /\ href = "/login"
      /\ call.redirected
      /\ call.refreshCalls = 0
      /\ Len(call.sent) = 1
      /\ call.pc = "rejected"
      /\ call.outcome = Some(call.resp[1])

C9_Witness ==
  /\ pipeEv.act = "noRefresh"
  /\ calls[pipeEv.call].sent[1] # None
  /\ \A c \in CallIds : c # pipeEv.call => calls[c].pc = "idle"

\* C10: when a call fails with status 503 while the bridge is subscribed,
\* the bridge adds a toast of type error with the fixed message "Service
\* temporarily unavailable. Please try again." and duration 8000.
C10_Status503FixedMessage ==
  [][\A c \in CallIds :
       ( /\ calls[c].pc = "sent"
         /\ calls'[c].pc = "rejected"
         /\ StatusOf(calls'[c].outcome[1]) = Some(503)
         /\ "bridge" \in Subscribed )
       => /\ Len(toasts') = Len(toasts) + 1
          /\ toasts'[Len(toasts')].type = "error"
          /\ toasts'[Len(toasts')].message =
               <<"Service temporarily unavailable. Please try again.">>
          /\ toasts'[Len(toasts')].duration = 8000]_vars

\* C11: no response with status 401 is published to the listeners: a call
\* whose last response was 401 (refresh failed, no refresh token stored, or
\* 401 again on the re-issued call) was never published, no publication
\* carries status 401, and while a refresh is awaited nothing was published.
C11_No401Published ==
  /\ pipeEv.pub # None => pipeEv.pub[1].status # Some(401)
  /\ \A c \in CallIds :
       /\ calls[c].notified > 0 => FailedOther(c)
       /\ calls[c].pc = "refreshing" => calls[c].notified = 0
  /\ \A i \in DOMAIN toasts : toasts[i].message # <<"Not authenticated">>

C11_Witness ==
  \E c \in CallIds :
    /\ Len(calls[c].resp) = 2
    /\ StatusOf(calls[c].resp[1]) = Some(401)
    /\ StatusOf(calls[c].resp[2]) = Some(401)
    /\ calls[c].pc = "rejected"
    /\ calls[c].notified = 0
    /\ "bridge" \in Subscribed
    /\ toasts = <<>>

\* C12: a call that fails with a status other than 401, or with no response,
\* also as a re-issued call after a refresh, is published exactly once: one
\* notifyError with its message and status, handed to every listener
\* subscribed at that moment.
C12_OnePublicationPerFailure ==
  /\ \A c \in CallIds :
       /\ calls[c].notified <= 1
       /\ FailedOther(c) => calls[c].notified = 1
  /\ (pipeEv.act = "reject" /\ FailedOther(pipeEv.call)) =>
       /\ pipeEv.pub = Some([message |-> extractErrorMessage(LastResp(pipeEv.call)),
                             status |-> StatusOf(LastResp(pipeEv.call))])
       /\ pipeEv.to = Subscribed

C12_Witness ==
  /\ pipeEv.act = "reject"
  /\ calls[pipeEv.call].got # None
  /\ StatusOf(LastResp(pipeEv.call)) = None
  /\ calls[pipeEv.call].notified = 1
  /\ pipeEv.to = Listeners

\* C15: subscribe adds one listener, unsubscribe removes one, nothing else
\* changes the subscribers, and a publication is handed, within the
\* publishing step, to exactly the listeners subscribed and not yet
\* unsubscribed at that moment.
C15_DeliveryWhileSubscribed ==
  [][ /\ pipeEv'.act = "subscribe" =>
           \E l \in Listeners : l \notin Subscribed /\ Subscribed' = Subscribed \cup {l}
      /\ pipeEv'.act = "unsubscribe" =>
           \E l \in Subscribed : Subscribed' = Subscribed \ {l}
      /\ pipeEv'.act \notin {"subscribe", "unsubscribe"} => Subscribed' = Subscribed
      /\ pipeEv'.pub # None => pipeEv'.to = Subscribed
      /\ pipeEv'.pub = None => pipeEv'.to = {} ]_vars

C15_Witness ==
  /\ pipeEv.pub # None
  /\ pipeEv.to = {"probe"}
  /\ Subscribed = {"probe"}
  /\ Len(toasts) = 1
  /\ \E c \in CallIds : c # pipeEv.call /\ calls[c].notified = 1

\* C16: a call that fails with a status other than 401 rejects with the
\* error it failed with, however many listeners are subscribed and also
\* when a listener raises while handling the publication.
C16_RejectsWithOriginalError ==
  \A c \in CallIds : FailedOther(c) => calls[c].outcome = Some(LastResp(c))

\* C17: a call that goes on the wire, first or re-issued, carries the access
\* token the store holds at that moment, and no bearer when it holds none.
C17_BearerIsStoredAccessToken ==
  pipeEv.act \in {"send", "refreshOk"} =>
    LET call == calls[pipeEv.call] IN
      IF store.access # None
        THEN call.sent[Len(call.sent)] = store.access
        ELSE call.sent[Len(call.sent)] = None

C17_Witness ==
  /\ pipeEv.act = "refreshOk"
  /\ tokSeq = 2
  /\ calls[pipeEv.call].sent = <<Some(AccessToken(0)), Some(AccessToken(2))>>
  /\ store.access = Some(AccessToken(2))

\* C13: every toast is taken off the active list at most once and only by a
\* removal of its own id; a removal for a toast already off the list (after
\* dismissal and expiry both occurred) removes nothing; and once every toast
\* is mounted and no timer is left, no toast is still on the list.
C13_RemovedExactlyOnce ==
  /\ \A id \in DOMAIN items :
       /\ items[id].removed <= 1
       /\ items[id].removed = 1 <=> (id \notin ActiveIds(toasts))
  /\ toastEv.act = "remove" => toastEv.gone \subseteq {toastEv.id}
  /\ Cardinality(ActiveIds(toasts)) = Len(toasts)
  /\ (\A id \in DOMAIN items :
        items[id].mounted # "no" /\ items[id].expiry # "armed" /\ items[id].pending = 0)
       => toasts = <<>>

C13_Witness ==
  /\ toastEv.act = "remove"
  /\ toastEv.gone = {}
  /\ items[toastEv.id].removed = 1
  /\ items[toastEv.id].clicked
  /\ items[toastEv.id].expiry = "fired"
  /\ toasts # <<>>

\* C32: while isPolling is true a task id is set and error is none; error
\* is the timeout message or the error-budget message, set by the stop for
\* that reason, and then isPolling is false and task is none or not
\* terminal; while task holds success or failed, error is none.
C32_PollerView ==
  /\ isPolling => (taskId # NULL /\ error = None)
  /\ error # None =>
       /\ \/ stopped = "timeout" /\ error = Some(TimeoutError)
          \/ stopped = "budget" /\ error = Some(BudgetError(opts.maxErrors))
       /\ ~isPolling
       /\ task = None \/ task[1].status \notin {"success", "failed"}
  /\ TaskTerminal => error = None

C32_Witness ==
  /\ error = Some(TimeoutError)
  /\ task # None
  /\ task[1].status = "running"
  /\ ~isPolling
  /\ taskId # NULL

\* C33: once startPolling has set another task id, the result of a lookup
\* issued for the earlier id is not stored as task, does not change the
\* interval or the error count, does not stop polling and does not invoke
\* onComplete.
C33_EarlierTaskResultDropped ==
  [][ \A r \in inflight \ inflight' :
        (taskId # NULL /\ r.id # taskId) =>
          UNCHANGED <<task, intervalRef, errorCountRef, isPolling, error,
                      completions, timer>> ]_vars

\* The remote task is terminal while the session is within its timeout.
TerminalInTime == remote \in {"success", "failed"} /\ now - startTimeRef <= opts.timeout

\* onComplete was invoked with the task as it ended on the server.
CompletedWithRemote ==
  /\ completions = 1
  /\ task = Some([id |-> "A", status |-> remote])

\* A lookup of the running effect awaits its answer while the remote task
\* is terminal.
TerminalAwaited ==
  remote \in {"success", "failed"} /\ \E r \in inflight : ~IsCancelled(r)

C27_NoSingleFlightRefresh ==
  (pipeEv.act \in {"refresh", "noRefresh", "reject"}
     /\ Len(calls[pipeEv.call].resp) = 1
     /\ StatusOf(calls[pipeEv.call].resp[1]) = Some(401)) =>
    IF store.refresh # None
      THEN /\ calls[pipeEv.call].pc = "refreshing"
           /\ calls[pipeEv.call].refreshCalls = 1
           /\ calls[pipeEv.call].refreshWith = store.refresh
      ELSE /\ calls[pipeEv.call].pc = "rejected"
           /\ calls[pipeEv.call].refreshCalls = 0

C27_Witness ==
  /\ pipeEv.act = "refresh"
  /\ \A c \in CallIds : calls[c].pc = "refreshing" /\ calls[c].refreshCalls = 1
  /\ store.refresh # None

\* C28: a response with a status other than 401, success or failure, leaves
\* the credential store and the location unchanged, makes no refresh call
\* and does not send the call again.
C28_OtherStatusLeavesProtocolAlone ==
  [][ \A c \in CallIds :
        ( /\ calls[c].pc = "sent"
          /\ Len(calls'[c].resp) = Len(calls[c].resp) + 1
          /\ StatusOf(LastResp(c)') # Some(401) )
        => /\ store' = store
           /\ href' = href
           /\ tokSeq' = tokSeq
           /\ calls'[c].refreshCalls = calls[c].refreshCalls
           /\ calls'[c].sent = calls[c].sent
           /\ calls'[c].pc \in {"resolved", "rejected"}
           /\ calls'[c].outcome = Some(LastResp(c)') ]_vars

C28_Witness ==
  /\ pipeEv.act = "reject"
  /\ StatusOf(LastResp(pipeEv.call)) = Some(409)
  /\ Len(calls[pipeEv.call].sent) = 1
  /\ calls[pipeEv.call].refreshCalls = 0
  /\ store = StoredPair(0)
  /\ href = "/"

\* C26: when a publish has returned, every listener that was subscribed when
\* it began was called exactly once and no other listener was called,
\* whatever the handlers subscribed or unsubscribed meanwhile.
C26_DeliversToSubscribersAtBegin ==
  fanPos = 0 =>
    \A h \in Handlers : fanCalls[h] = IF h \in fanBegan THEN 1 ELSE 0

\* C29: the bridge turns each published (message, status) into one toast:
\* a status of 500 or more gives an error toast of 8000 ms, 409 a warning
\* toast of 6000 ms, any other status or none an error toast of 5000 ms, and
\* the toast's message is the published message.
C29_BridgeMapping ==
  (toastEv.act = "add" /\ toastEv.event # None) =>
    LET e == toastEv.event[1]
        t == toasts[Len(toasts)]
        big == e.status # None /\ e.status[1] >= 500
    IN /\ toastSeq = toastEv.id
       /\ t.id = toastEv.id
       /\ t.message = e.message
       /\ t.type = IF ~big /\ e.status = Some(409) THEN "warning" ELSE "error"
       /\ t.duration = IF big THEN 8000
                       ELSE IF e.status = Some(409) THEN 6000 ELSE 5000

C29_Witness ==
  /\ toastEv.act = "add"
  /\ toastEv.event # None
  /\ toastEv.event[1].status = Some(503)
  /\ toasts[Len(toasts)].message = <<"Service Unavailable">>
  /\ \E i \in DOMAIN toasts : toasts[i].type = "warning"

\* C30: whenever the active list holds a toast it later holds none, with no
\* click needed, so every toast put on the list is eventually taken off it;
\* the timer that does so is armed with the toast's duration, or with 5000
\* when it has none, and a click on the dismiss button takes the toast off
\* as well.
C30_EveryToastExpires ==
  /\ [](\A i \in DOMAIN toasts :
          items[toasts[i].id].expiry # "none" =>
            items[toasts[i].id].delay =
              IF toasts[i].duration = 0 THEN 5000 ELSE toasts[i].duration)
  /\ (toasts # <<>>) ~> (toasts = <<>>)

C30_Witness ==
  /\ toastEv.act = "remove"
  /\ toastEv.gone = {toastEv.id}
  /\ ~items[toastEv.id].clicked
  /\ items[toastEv.id].expiry = "fired"
  /\ items[toastEv.id].delay = 5000
  /\ dismissals = 0

\* The body of the response, None when there is no response or no body.
BodyOf(err) == IF err.response = None THEN None ELSE err.response[1].data

\* What a failure without a response body is reported as when its code is
\* that of a network failure or of a timeout.
TransportMessage(err) ==
  IF err.code = "ERR_NETWORK" THEN <<"Network error - is the server running?">>
  ELSE <<"Request timed out">>

\* C31 as stated: the message is the detail when it is a string; else the
\* errors list joined; else, with no response body, the message for a
\* network failure or a timeout; else the generic fallback.
C31_MessageOrder ==
  exMsg # None =>
    LET b == BodyOf(exErr) IN
      exMsg[1] =
        IF b # None /\ b[1].detail # None THEN <<b[1].detail[1]>>
        ELSE IF b # None /\ b[1].errors # None THEN JoinErrors(b[1].errors[1])
        ELSE IF b = None /\ exErr.code \in {"ERR_NETWORK", "ECONNABORTED"}
          THEN TransportMessage(exErr)
        ELSE <<"An unexpected error occurred">>

\* C31 amended: as stated, but with no response body and neither a network
\* failure nor a timeout the message is the error's own message when it has
\* one, and the generic fallback only when it has none.
C31_MessageOrderWithOwnMessage ==
  exMsg # None =>
    LET b == BodyOf(exErr) IN
      exMsg[1] =
        IF b # None /\ b[1].detail # None THEN <<b[1].detail[1]>>
        ELSE IF b # None /\ b[1].errors # None THEN JoinErrors(b[1].errors[1])
        ELSE IF b = None /\ exErr.code \in {"ERR_NETWORK", "ECONNABORTED"}
          THEN TransportMessage(exErr)
        ELSE IF b = None /\ exErr.message # "" THEN <<exErr.message>>
        ELSE <<"An unexpected error occurred">>

C31_Witness ==
  /\ exMsg = Some(<<"Validation error">>)
  /\ BodyOf(exErr)[1].errors # None
  /\ Len(BodyOf(exErr)[1].errors[1]) = 2

\* Nothing is left to run on the page: no start call or lookup awaits its
\* answer, no timer is armed and React has rendered every state change.
PageQuiet ==
  /\ awaiting = {}
  /\ inflight = {}
  /\ timer = None
  /\ tpDeps = activeTaskId
  /\ deps = <<taskId, isPolling>>

\* C38: once the poll session of the active task has ended, by terminal
\* status, timeout or error budget, and nothing is left to run on the page,
\* the active task id is none.
C38_ActiveTaskReturnsToNone ==
  (PageQuiet /\ ~isPolling) => activeTaskId = NULL

\* C39: at most one task-start call awaits its response, and none does
\* while a task is tracked.
C39_OneTaskAtATime ==
  /\ Cardinality(awaiting) <= 1
  /\ awaiting # {} => activeTaskId = NULL

\* C35: a call's protocol redirects to the login page and clears the store
\* only if no refresh has succeeded since that call's 401: the refresh token
\* in the store is still the one the call read, or has been removed.
C35_NoClearAfterRefreshSucceeded ==
  [][ \A c \in CallIds :
        (~calls[c].redirected /\ calls'[c].redirected) =>
          (store.refresh = None \/ store.refresh = calls'[c].refreshWith) ]_vars

\* C36: from a store that holds both tokens or neither, every interleaving
\* of calls, refresh protocols and registrations leaves the store holding
\* both tokens or neither.
C36_BothOrNeither == store.access = None <=> store.refresh = None

\* One call's refresh stored a pair and another call's failed refresh then
\* emptied the store.
C36_Witness ==
  \E c, d \in CallIds :
    /\ calls[c].got # None
    /\ calls[d].refreshWith # None /\ calls[d].redirected
    /\ pipeEv.act = "refreshFail" /\ pipeEv.call = d
    /\ store = [access |-> None, refresh |-> None]

\* C37: when a call whose refresh succeeded is re-issued and the re-issued
\* call fails with something other than 401, that step leaves the stored
\* credentials and the location as they are, the call has not redirected,
\* the failure is published once, and the caller's call rejects with the
\* re-issued call's error.
C37_RetryFailureKeepsCredentials ==
  [][ \A c \in CallIds :
        LET err == calls'[c].resp[Len(calls'[c].resp)] IN
          ( /\ calls[c].got # None
            /\ calls[c].pc = "sent"
            /\ calls'[c].pc = "rejected"
            /\ err.response = None \/ err.response[1].status # 401 ) =>
            /\ store' = store
            /\ href' = href
            /\ ~calls'[c].redirected
            /\ calls[c].notified = 0 /\ calls'[c].notified = 1
            /\ pipeEv'.pub # None
            /\ Len(calls'[c].resp) = 2
            /\ calls'[c].outcome = Some(err) ]_vars

\* A re-issued call has just failed with 503 and the store still holds the
\* pair its refresh returned.
C37_Witness ==
  /\ pipeEv.act = "reject"
  /\ pipeEv.call \in CallIds
  /\ LET c == pipeEv.call IN
       /\ calls[c].got # None
       /\ Len(calls[c].resp) = 2
       /\ calls[c].resp[2].response # None
       /\ calls[c].resp[2].response[1].status = 503
       /\ store = StoredPair(calls[c].got[1])

====
